---- MODULE Spec2Model ----
(***************************************************************************)
(* Donkey King game server (src/server/game-server.ts): the room registry, *)
(* the private hand store and the handlers of the socket events, as a      *)
(* state machine.  One step is one event handled to completion.            *)
(***************************************************************************)
EXTENDS Integers, Sequences, FiniteSets, TLC

(* ------------------------------ bounds -------------------------------- *)

\* connection ids handed out by the transport
NumSockets == 4
\* ranks per suit in the deck (the first ranks of createDeck's list; 13 in the source)
NumRanks == 2
\* cards dealt to each player (13 in the source)
CardsPerPlayer == 2
\* outcomes of the random stream that drives one shuffle
NumSeeds == 1
\* cards one game may see played
MaxPlays == 5
\* calls of handlePlayerFinish made on one list of players
MaxCalls == 4
\* browser clients whose hook state and message channels are followed
NumClients == 2
\* messages one channel holds in flight
MaxInFlight == 1

(* ------------------------- program constants -------------------------- *)

MaxPlayers == 4
PlayersToStart == 4
TrickSize == 4
SetSize == 4

None == 0
NoSuit == "none"

Sockets == 1..NumSockets
\* room codes generateRoomId draws in the game specification
GameCodes == {1}
RoomIds == GameCodes
\* player names typed by the clients
Names == {<<"A">>}

Suits == <<"hearts", "diamonds", "clubs", "spades">>
DeckRanks == <<"A", "2", "3", "4", "5", "6", "7", "8", "9", "10", "J", "Q", "K">>
RankOrder == <<"2", "3", "4", "5", "6", "7", "8", "9", "10", "J", "Q", "K", "A">>

Ranks == SubSeq(DeckRanks, 1, NumRanks)
DeckSize == Len(Suits) * Len(Ranks)

(* ------------------------------ helpers ------------------------------- *)

Range(f) == {f[i] : i \in DOMAIN f}

RECURSIVE IndexOf(_, _, _)
\* Array.prototype.indexOf, 0-based, -1 when absent
IndexOf(seq, x, i) ==
  IF i > Len(seq) THEN -1
  ELSE IF seq[i] = x THEN i - 1
  ELSE IndexOf(seq, x, i + 1)

\* smallest 1-based index whose element passes the test, 0 when none
\* (Array.prototype.find / findIndex scan from the front)
FirstIndex(seq, Test(_)) ==
  IF \E i \in DOMAIN seq : Test(seq[i])
  THEN CHOOSE i \in DOMAIN seq : Test(seq[i]) /\ \A j \in 1..(i - 1) : ~Test(seq[j])
  ELSE 0

RECURSIVE SumCardCount(_)
SumCardCount(ps) ==
  IF ps = <<>> THEN 0 ELSE Head(ps).cardCount + SumCardCount(Tail(ps))

RECURSIVE SumCollected(_)
SumCollected(ps) ==
  IF ps = <<>> THEN 0 ELSE Head(ps).collectedCards + SumCollected(Tail(ps))

RECURSIVE MaxCollected(_)
\* Math.max(...players.map(p => p.collectedCards)), players non-empty
MaxCollected(ps) ==
  IF Len(ps) = 1 THEN ps[1].collectedCards
  ELSE LET m == MaxCollected(Tail(ps))
       IN IF Head(ps).collectedCards > m THEN Head(ps).collectedCards ELSE m

\* Map.set on a map kept as a function over its keys
MapSet(m, k, v) == [x \in DOMAIN m \cup {k} |-> IF x = k THEN v ELSE m[x]]
\* Map.delete
MapDelete(m, k) == [x \in DOMAIN m \ {k} |-> m[x]]

(* -------------------------------- deck -------------------------------- *)

Card(s, r) == [suit |-> s, rank |-> r]

\* the nested loops of createDeck: suit-major, ranks in DeckRanks order
OrderedDeck ==
  [i \in 1..DeckSize |->
     Card(Suits[((i - 1) \div Len(Ranks)) + 1], Ranks[((i - 1) % Len(Ranks)) + 1])]

AllCards == Range(OrderedDeck)

\* Math.floor(Math.random() * (i + 1)) for the draw made at loop index i;
\* the stream of draws is picked by seed
RandomIndex(seed, i) == ((seed + 1) * i) % (i + 1)

\* variant of the swap that copies one way only
Swap_CopyOnly(d, a, b) == [d EXCEPT ![a] = d[b]]

Swap(d, a, b) == [d EXCEPT ![a] = d[b], ![b] = d[a]]

RECURSIVE FisherYates(_, _, _)
\* for (i = deck.length - 1; i > 0; i--) swap deck[i], deck[j]  (0-based i)
FisherYates(d, i, seed) ==
  IF i < 1 THEN d
  ELSE FisherYates(Swap(d, i + 1, RandomIndex(seed, i) + 1), i - 1, seed)

createDeck(seed) == FisherYates(OrderedDeck, DeckSize - 1, seed)

\* deck.splice(0, cardsPerPlayer) for the i-th player (0-based)
DealtHand(deck, i) ==
  SubSeq(deck,
         IF i * CardsPerPlayer + 1 > Len(deck) THEN Len(deck) + 1 ELSE i * CardsPerPlayer + 1,
         IF (i + 1) * CardsPerPlayer > Len(deck) THEN Len(deck) ELSE (i + 1) * CardsPerPlayer)

\* variant of compareCards that ranks by the order in which createDeck lists
\* the ranks (A first)
compareCards_ByDeckOrder(card1, card2) ==
  IndexOf(DeckRanks, card1.rank, 1) - IndexOf(DeckRanks, card2.rank, 1)

\* compareCards: difference of the positions in rankOrder
compareCards(card1, card2) ==
  IndexOf(RankOrder, card1.rank, 1) - IndexOf(RankOrder, card2.rank, 1)

(* ------------------------------- state -------------------------------- *)

VARIABLES
  rooms,      \* GameServer.rooms: room code -> GameRoom
  roomOrder,  \* insertion order of the keys of GameServer.rooms
  cards,      \* GameServer.playerCardStorage: room code -> player id -> Card[]
  sockRoom,   \* socket.roomId of every connection (None while unset)
  joined,     \* socket.join: room code -> connections in its broadcast group
  connected,  \* connections the transport still holds (io.sockets.sockets)
  sent,       \* messages emitted while handling the latest event
  strayed,    \* an event outside the normal flow of a game has happened
  trial,      \* the latest call of a function of the rules module, with its result
  clientState, \* useGameSocket: id of the room in gameState (None for null) per client
  entering,   \* the client has called createRoom or joinRoom since its last leaveRoom
  uplink,     \* events a client has emitted that the server has not handled yet
  downlink    \* messages the server has emitted to a client that are not delivered yet

vars == <<rooms, roomOrder, cards, sockRoom, joined, connected, sent, strayed, trial,
          clientState, entering, uplink, downlink>>

\* the browser clients and the channels between them and the server
browser == <<clientState, entering, uplink, downlink>>

\* the state of the server
server == <<rooms, roomOrder, cards, sockRoom, joined, connected>>

\* the Player literal of createRoom / joinRoom
NewPlayer(s, name, displayName, isHost) ==
  [id |-> s, name |-> name, displayName |-> displayName, cardCount |-> 0,
   isHost |-> isHost, isCurrentTurn |-> FALSE, collectedCards |-> 0]

\* the GameRoom literal of createRoom
NewRoom(r, player) ==
  [id |-> r, players |-> <<player>>, gameState |-> "waiting",
   currentPlayerIndex |-> 0, centerCards |-> <<>>, currentTrick |-> <<>>,
   trickLeadSuit |-> NoSuit, trickStartPlayer |-> 0,
   winner |-> None, donkey |-> None]

getPlayerCards(store, r, pid) ==
  IF r \notin DOMAIN store THEN <<>>
  ELSE IF pid \notin DOMAIN store[r] THEN <<>>
  ELSE store[r][pid]

setPlayerCards(store, r, pid, hand) ==
  MapSet(store, r, MapSet(IF r \in DOMAIN store THEN store[r] ELSE <<>>, pid, hand))

removeCardFromPlayer(store, r, pid, cardId) ==
  setPlayerCards(store, r, pid,
                 SelectSeq(getPlayerCards(store, r, pid), LAMBDA c : c # cardId))

\* index (1-based) of the player entry of connection s, 0 when absent
PlayerPos(room, s) == FirstIndex(room.players, LAMBDA p : p.id = s)

IsMember(room, s) == PlayerPos(room, s) # 0

(* ------------------------------ messages ------------------------------ *)

ErrorMsg(s, text) == [to |-> s, type |-> "ERROR", text |-> text]

ViewMsg(s, type, room, myCards, canPass) ==
  [to |-> s, type |-> type, room |-> room, myCards |-> myCards,
   myId |-> s, canPass |-> canPass]

\* the fields broadcastGameStateUpdate / broadcastGameStateToRoom copy
PublicPlayer(p) ==
  [id |-> p.id, name |-> p.name, cardCount |-> p.cardCount,
   isHost |-> p.isHost, isCurrentTurn |-> p.isCurrentTurn]

PublicRoom(room) ==
  [room EXCEPT !.players = [i \in DOMAIN room.players |-> PublicPlayer(room.players[i])]]

\* variant of broadcastGameStateUpdate that shows everybody the hand of the
\* first seat
broadcastGameStateUpdate_FirstHand(room, store, conn) ==
  SelectSeq([i \in DOMAIN room.players |->
               ViewMsg(room.players[i].id, "GAME_STATE_UPDATE", PublicRoom(room),
                       getPlayerCards(store, room.id, room.players[1].id),
                       room.players[i].isCurrentTurn)],
            LAMBDA m : m.to \in conn)

\* one GAME_STATE_UPDATE per player whose socket is still held
broadcastGameStateUpdate(room, store, conn) ==
  SelectSeq([i \in DOMAIN room.players |->
               ViewMsg(room.players[i].id, "GAME_STATE_UPDATE", PublicRoom(room),
                       getPlayerCards(store, room.id, room.players[i].id),
                       room.players[i].isCurrentTurn)],
            LAMBDA m : m.to \in conn)

broadcastGameStateToRoom(room, store, conn) ==
  SelectSeq([i \in DOMAIN room.players |->
               ViewMsg(room.players[i].id, "GAME_STATE_UPDATE", PublicRoom(room),
                       getPlayerCards(store, room.id, room.players[i].id),
                       FALSE)],
            LAMBDA m : m.to \in conn)

\* io.to(roomId).emit: every held connection of the broadcast group
broadcastToRoom(r, grp, conn, type, winner, donkey) ==
  LET targets == (IF r \in DOMAIN grp THEN grp[r] ELSE {}) \cap conn
  IN SelectSeq([s \in Sockets |->
                  [to |-> s, type |-> type, winner |-> winner, donkey |-> donkey]],
               LAMBDA m : m.to \in targets)

\* no function of the rules module has been called
Untried == [fn |-> "none"]

(* -------------------------------- Init -------------------------------- *)

Init ==
  /\ rooms = <<>>
  /\ roomOrder = <<>>
  /\ cards = <<>>
  /\ sockRoom = [s \in Sockets |-> None]
  /\ joined = <<>>
  /\ connected = Sockets
  /\ sent = <<>>
  /\ strayed = FALSE
  /\ trial = Untried
  /\ clientState = [s \in Sockets |-> None]
  /\ entering = [s \in Sockets |-> FALSE]
  /\ uplink = [s \in Sockets |-> <<>>]
  /\ downlink = [s \in Sockets |-> <<>>]

(* ---------------------------- CREATE_ROOM ----------------------------- *)

\* r is the code generateRoomId returned
CreateRoom(s, r, name) ==
  LET room == NewRoom(r, NewPlayer(s, name, name, TRUE))
  IN /\ s \in connected
     /\ rooms' = MapSet(rooms, r, room)
     /\ roomOrder' = IF r \in DOMAIN rooms THEN roomOrder ELSE Append(roomOrder, r)
     /\ joined' = MapSet(joined, r, (IF r \in DOMAIN joined THEN joined[r] ELSE {}) \cup {s})
     /\ sockRoom' = [sockRoom EXCEPT ![s] = r]
     /\ sent' = <<ViewMsg(s, "ROOM_CREATED", room, <<>>, FALSE)>>
     /\ UNCHANGED <<cards, connected>>

(* ----------------------------- JOIN_ROOM ------------------------------ *)

\* `${desiredName} (${counter})`
Suffixed(name, counter) == Append(name, counter)

generateUniqueDisplayName_FirstSuffix(players, desiredName) ==
  LET existingNames == {players[i].displayName : i \in DOMAIN players}
  IN IF desiredName \notin existingNames THEN desiredName
     ELSE Suffixed(desiredName, 2)

generateUniqueDisplayName(players, desiredName) ==
  LET existingNames == {players[i].displayName : i \in DOMAIN players}
  IN IF desiredName \notin existingNames THEN desiredName
     ELSE LET free == {k \in 2..(Len(players) + 2) :
                         Suffixed(desiredName, k) \notin existingNames}
          IN Suffixed(desiredName, CHOOSE k \in free : \A m \in free : k <= m)

joinRefusal_IgnoresGameState(r) ==
  IF r \notin DOMAIN rooms THEN "Room not found"
  ELSE IF Len(rooms[r].players) >= MaxPlayers THEN "Room is full"
  ELSE ""

\* the message of the early return joinRoom takes for room code r, "" when
\* it takes none
joinRefusal(r) ==
  IF r \notin DOMAIN rooms THEN "Room not found"
  ELSE IF Len(rooms[r].players) >= MaxPlayers THEN "Room is full"
  ELSE IF rooms[r].gameState # "waiting" THEN "Game already in progress"
  ELSE ""

\* joinRoom: the registry, the socket's room and the messages it leaves behind
joinRoom(s, r, name) ==
  LET same(text) == [rooms |-> rooms, joined |-> joined, sockRoom |-> sockRoom,
                     sent |-> <<ErrorMsg(s, text)>>]
  IN IF joinRefusal(r) # "" THEN same(joinRefusal(r))
     ELSE
       LET room == rooms[r]
           pos == PlayerPos(room, s)
           others == SelectSeq(room.players, LAMBDA p : p.id # s)
           isHost == IF pos # 0 THEN room.players[pos].isHost
                     ELSE ~(\E i \in DOMAIN room.players : room.players[i].isHost)
           displayName == generateUniqueDisplayName(others, name)
           room2 == [room EXCEPT
                       !.players = Append(others, NewPlayer(s, name, displayName, isHost))]
       IN [rooms |-> [rooms EXCEPT ![r] = room2],
           joined |-> MapSet(joined, r,
                             (IF r \in DOMAIN joined THEN joined[r] ELSE {}) \cup {s}),
           sockRoom |-> [sockRoom EXCEPT ![s] = r],
           sent |-> <<ViewMsg(s, "ROOM_JOINED", room2, <<>>, FALSE)>>
                      \o broadcastGameStateToRoom(room2, cards, connected)]

JoinRoom(s, r, name) ==
  /\ s \in connected
  /\ rooms' = joinRoom(s, r, name).rooms
  /\ joined' = joinRoom(s, r, name).joined
  /\ sockRoom' = joinRoom(s, r, name).sockRoom
  /\ sent' = joinRoom(s, r, name).sent
  /\ UNCHANGED <<roomOrder, cards, connected>>

(* ----------------------------- START_GAME ----------------------------- *)

\* initializeGame: the room after the reset and the deal
InitializedRoom(room, deck) ==
  [room EXCEPT
     !.gameState = "playing",
     !.currentPlayerIndex = 0,
     !.centerCards = <<>>,
     !.currentTrick = <<>>,
     !.trickLeadSuit = NoSuit,
     !.trickStartPlayer = 0,
     !.players = [i \in DOMAIN room.players |->
                    [room.players[i] EXCEPT
                       !.isCurrentTurn = (i = 1),
                       !.collectedCards = 0,
                       !.cardCount = Len(DealtHand(deck, i - 1))]]]

RECURSIVE DealInto(_, _, _, _)
\* the dealing loop of initializeGame: setPlayerCards for players i..n
DealInto(store, room, deck, i) ==
  IF i > Len(room.players) THEN store
  ELSE DealInto(setPlayerCards(store, room.id, room.players[i].id, DealtHand(deck, i - 1)),
                room, deck, i + 1)

\* the GAME_STARTED loop of initializeGame
GameStartedMsgs(room, store, conn) ==
  SelectSeq([i \in DOMAIN room.players |->
               ViewMsg(room.players[i].id, "GAME_STARTED", room,
                       getPlayerCards(store, room.id, room.players[i].id),
                       i = 1)],
            LAMBDA m : m.to \in conn)

\* variant of startGame that deals to a party of any size
StartGame_AnyParty(s, seed) ==
  /\ s \in connected
  /\ IF sockRoom[s] \notin DOMAIN rooms
       \/ PlayerPos(rooms[sockRoom[s]], s) = 0
       \/ ~rooms[sockRoom[s]].players[PlayerPos(rooms[sockRoom[s]], s)].isHost
     THEN
       /\ sent' = <<>>
       /\ UNCHANGED <<rooms, roomOrder, cards, sockRoom, joined, connected>>
     ELSE
       LET room == rooms[sockRoom[s]]
           deck == createDeck(seed)
           room2 == InitializedRoom(room, deck)
           store2 == DealInto(cards, room2, deck, 1)
       IN /\ rooms' = [rooms EXCEPT ![room.id] = room2]
          /\ cards' = store2
          /\ sent' = GameStartedMsgs(room2, store2, connected)
          /\ UNCHANGED <<roomOrder, sockRoom, joined, connected>>

\* seed picks the outcome of the shuffle
StartGame(s, seed) ==
  /\ s \in connected
  /\ IF sockRoom[s] \notin DOMAIN rooms THEN
       /\ sent' = <<>>
       /\ UNCHANGED <<rooms, roomOrder, cards, sockRoom, joined, connected>>
     ELSE
       LET room == rooms[sockRoom[s]]
           pos == PlayerPos(room, s)
       IN IF pos = 0 \/ ~room.players[pos].isHost THEN
            /\ sent' = <<>>
            /\ UNCHANGED <<rooms, roomOrder, cards, sockRoom, joined, connected>>
          ELSE IF Len(room.players) # PlayersToStart THEN
            /\ sent' = <<ErrorMsg(s, "Need exactly 4 players to start")>>
            /\ UNCHANGED <<rooms, roomOrder, cards, sockRoom, joined, connected>>
          ELSE
            LET deck == createDeck(seed)
                room2 == InitializedRoom(room, deck)
                store2 == DealInto(cards, room2, deck, 1)
            IN /\ rooms' = [rooms EXCEPT ![room.id] = room2]
               /\ cards' = store2
               /\ sent' = GameStartedMsgs(room2, store2, connected)
               /\ UNCHANGED <<roomOrder, sockRoom, joined, connected>>

(* ----------------------------- PLAY_CARD ------------------------------ *)

RECURSIVE HighestFrom(_, _)
\* leadSuitCards.reduce: keep the earlier card unless a later one compares higher
HighestFrom(highest, rest) ==
  IF rest = <<>> THEN highest
  ELSE HighestFrom(IF compareCards(Head(rest), highest) > 0 THEN Head(rest) ELSE highest,
                   Tail(rest))

\* the card completeTrick picks: highest card of the lead suit
WinningCard(trick, leadSuit) ==
  LET leadSuitCards == SelectSeq(trick, LAMBDA c : c.suit = leadSuit)
  IN HighestFrom(Head(leadSuitCards), Tail(leadSuitCards))

\* variant of completeTrick that drops the trick instead of moving it to the
\* centre
completeTrick_NoCentre(room) ==
  LET winningCard == WinningCard(room.currentTrick, room.trickLeadSuit)
      winnerIndex == PlayerPos(room, winningCard.playedBy)
      credited ==
        IF winnerIndex = 0 THEN room
        ELSE [room EXCEPT
                !.players = [i \in DOMAIN room.players |->
                               [room.players[i] EXCEPT
                                  !.collectedCards =
                                     IF i = winnerIndex
                                     THEN @ + Len(room.currentTrick) ELSE @,
                                  !.isCurrentTurn = (i = winnerIndex)]],
                !.currentPlayerIndex = winnerIndex - 1,
                !.trickStartPlayer = winnerIndex - 1]
  IN [credited EXCEPT
        !.currentTrick = <<>>,
        !.trickLeadSuit = NoSuit]

\* completeTrick: the winner of the trick collects it and leads the next one
completeTrick(room) ==
  LET winningCard == WinningCard(room.currentTrick, room.trickLeadSuit)
      winnerIndex == PlayerPos(room, winningCard.playedBy)
      credited ==
        IF winnerIndex = 0 THEN room
        ELSE [room EXCEPT
                !.players = [i \in DOMAIN room.players |->
                               [room.players[i] EXCEPT
                                  !.collectedCards =
                                     IF i = winnerIndex
                                     THEN @ + Len(room.currentTrick) ELSE @,
                                  !.isCurrentTurn = (i = winnerIndex)]],
                !.currentPlayerIndex = winnerIndex - 1,
                !.trickStartPlayer = winnerIndex - 1]
  IN [credited EXCEPT
        !.centerCards = @ \o room.currentTrick,
        !.currentTrick = <<>>,
        !.trickLeadSuit = NoSuit]

\* the turn hand-over of playCard when the trick is still open
AdvanceTurn(room) ==
  LET next == (room.currentPlayerIndex + 1) % Len(room.players)
  IN [room EXCEPT
        !.currentPlayerIndex = next,
        !.players = [i \in DOMAIN room.players |->
                       [room.players[i] EXCEPT !.isCurrentTurn = (i - 1 = next)]]]

\* variant of the win check that waits until at most one player has cards
WinCheck_OneHolder(room) ==
  IF Len(SelectSeq(room.players, LAMBDA p : p.cardCount > 0)) <= 1
  THEN LET w == FirstIndex(room.players, LAMBDA p : p.cardCount = 0)
           maxCollected == MaxCollected(room.players)
           d == FirstIndex(room.players, LAMBDA p : p.collectedCards = maxCollected)
       IN [room EXCEPT
             !.gameState = "finished",
             !.winner = room.players[w].id,
             !.donkey = room.players[d].id]
  ELSE room

\* the win check at the end of playCard
WinCheck(room) ==
  IF \E i \in DOMAIN room.players : room.players[i].cardCount = 0
  THEN LET w == FirstIndex(room.players, LAMBDA p : p.cardCount = 0)
           maxCollected == MaxCollected(room.players)
           d == FirstIndex(room.players, LAMBDA p : p.collectedCards = maxCollected)
       IN [room EXCEPT
             !.gameState = "finished",
             !.winner = room.players[w].id,
             !.donkey = room.players[d].id]
  ELSE room

\* variant of PlayedRoom in which every card played sets the lead suit
PlayedRoom_LatestSuit(room, pos, c) ==
  LET led == [room EXCEPT !.trickLeadSuit = c.suit]
      put == [led EXCEPT
                !.players[pos].cardCount = @ - 1,
                !.currentTrick = Append(@, [suit |-> c.suit, rank |-> c.rank,
                                            playedBy |-> room.players[pos].id])]
      turned == IF Len(put.currentTrick) = TrickSize
                THEN completeTrick(put) ELSE AdvanceTurn(put)
  IN WinCheck(turned)

\* the room after an accepted play of card c by the player at position pos
PlayedRoom(room, pos, c) ==
  LET led == IF Len(room.currentTrick) = 0
             THEN [room EXCEPT !.trickLeadSuit = c.suit] ELSE room
      put == [led EXCEPT
                !.players[pos].cardCount = @ - 1,
                !.currentTrick = Append(@, [suit |-> c.suit, rank |-> c.rank,
                                            playedBy |-> room.players[pos].id])]
      turned == IF Len(put.currentTrick) = TrickSize
                THEN completeTrick(put) ELSE AdvanceTurn(put)
  IN WinCheck(turned)

\* variant of the turn test that lets every seated player play
HasTurn_AnySeat(room, pos) == pos # 0

\* currentPlayer?.isCurrentTurn for the entry at position pos (0: no entry)
HasTurn(room, pos) == pos # 0 /\ room.players[pos].isCurrentTurn

\* playerCards.find((card) => card.id === cardId) finds a card
HoldsCard(store, r, s, c) == c \in Range(getPlayerCards(store, r, s))

\* playCard: the registry, the hand store and the messages it leaves behind
playCard(s, c) ==
  LET same(msgs) == [rooms |-> rooms, cards |-> cards, sent |-> msgs]
  IN IF sockRoom[s] \notin DOMAIN rooms THEN same(<<>>)
     ELSE
       LET room == rooms[sockRoom[s]]
           pos == PlayerPos(room, s)
       IN IF room.gameState # "playing" THEN same(<<>>)
          ELSE IF ~HasTurn(room, pos)
            THEN same(<<ErrorMsg(s, "Not your turn!")>>)
          ELSE IF ~HoldsCard(cards, room.id, s, c)
            THEN same(<<ErrorMsg(s, "Card not found in your hand")>>)
          ELSE
            LET room2 == PlayedRoom(room, pos, c)
                store2 == removeCardFromPlayer(cards, room.id, s, c)
            IN [rooms |-> [rooms EXCEPT ![room.id] = room2],
                cards |-> store2,
                sent |-> broadcastGameStateUpdate(room2, store2, connected)]

PlayCard(s, c) ==
  /\ s \in connected
  /\ rooms' = playCard(s, c).rooms
  /\ cards' = playCard(s, c).cards
  /\ sent' = playCard(s, c).sent
  /\ UNCHANGED <<roomOrder, sockRoom, joined, connected>>

(* ------------------------------ MAKE_SET ------------------------------ *)

\* n is cardIds.length, the only part of the payload makeSet reads
MakeSet(s, n) ==
  /\ s \in connected
  /\ IF sockRoom[s] \notin DOMAIN rooms THEN
       /\ sent' = <<>>
       /\ UNCHANGED <<rooms, roomOrder, cards, sockRoom, joined, connected>>
     ELSE
       LET room == rooms[sockRoom[s]]
           pos == PlayerPos(room, s)
       IN IF pos = 0 THEN
            /\ sent' = <<>>
            /\ UNCHANGED <<rooms, roomOrder, cards, sockRoom, joined, connected>>
          ELSE IF n # SetSize THEN
            /\ sent' = <<ErrorMsg(s, "A set must have exactly 4 cards")>>
            /\ UNCHANGED <<rooms, roomOrder, cards, sockRoom, joined, connected>>
          ELSE
            LET less == [room EXCEPT !.players[pos].cardCount = @ - SetSize]
                withCards == SelectSeq(less.players, LAMBDA p : p.cardCount > 0)
                over == [less EXCEPT
                           !.gameState = "finished",
                           !.winner = s,
                           !.donkey = IF Len(withCards) = 1 THEN withCards[1].id ELSE @]
            IN /\ IF less.players[pos].cardCount = 0 THEN
                    /\ rooms' = [rooms EXCEPT ![room.id] = over]
                    /\ sent' = broadcastToRoom(room.id, joined, connected,
                                               "GAME_FINISHED", over.winner, over.donkey)
                  ELSE
                    /\ rooms' = [rooms EXCEPT ![room.id] = less]
                    /\ sent' = broadcastGameStateUpdate(less, cards, connected)
               /\ UNCHANGED <<roomOrder, cards, sockRoom, joined, connected>>

(* ----------------------- PASS_CARDS and READY_UP ---------------------- *)

PassCards(s) ==
  /\ s \in connected
  /\ sent' = <<ErrorMsg(s, "Card passing not available in this game mode")>>
  /\ UNCHANGED <<rooms, roomOrder, cards, sockRoom, joined, connected>>

ReadyUp(s) ==
  /\ s \in connected
  /\ sent' = <<>>
  /\ UNCHANGED <<rooms, roomOrder, cards, sockRoom, joined, connected>>

(* --------------------- LEAVE_ROOM and disconnect ---------------------- *)

\* the first room, in Map order, that lists connection s; None when no room does
RoomOf(s) ==
  LET i == FirstIndex(roomOrder, LAMBDA r : IsMember(rooms[r], s))
  IN IF i = 0 THEN None ELSE roomOrder[i]

RoomWithout_NoPromotion(room, s) ==
  [room EXCEPT !.players = SelectSeq(room.players, LAMBDA p : p.id # s)]

\* the room handlePlayerDisconnect leaves behind when somebody remains
RoomWithout(room, s) ==
  LET rest == SelectSeq(room.players, LAMBDA p : p.id # s)
      hostless == ~(\E i \in DOMAIN rest : rest[i].isHost)
  IN [room EXCEPT
        !.players = IF hostless
                    THEN [i \in DOMAIN rest |-> [rest[i] EXCEPT !.isHost = (i = 1)]]
                    ELSE rest]

\* handlePlayerDisconnect(s), after the handler emitted the messages in before;
\* conn is the set of connections the transport holds during the call
handlePlayerDisconnect(s, before, conn) ==
  LET r == RoomOf(s)
  IN IF r = None THEN
       /\ sent' = before
       /\ UNCHANGED <<rooms, roomOrder>>
     ELSE IF Len(rooms[r].players) = 1 THEN
       /\ rooms' = MapDelete(rooms, r)
       /\ roomOrder' = SelectSeq(roomOrder, LAMBDA x : x # r)
       /\ sent' = before
     ELSE
       LET room2 == RoomWithout(rooms[r], s)
       IN /\ rooms' = [rooms EXCEPT ![r] = room2]
          /\ roomOrder' = roomOrder
          /\ sent' = before \o broadcastGameStateToRoom(room2, cards, conn)

LeaveRoom(s) ==
  /\ s \in connected
  /\ handlePlayerDisconnect(s, <<[to |-> s, type |-> "PLAYER_LEFT", playerId |-> s]>>,
                            connected)
  /\ UNCHANGED <<cards, sockRoom, joined, connected>>

\* the transport's disconnect callback
Disconnect(s) ==
  /\ s \in connected
  /\ connected' = connected \ {s}
  /\ handlePlayerDisconnect(s, <<>>, connected \ {s})
  /\ UNCHANGED <<cards, sockRoom, joined>>

(* ------------------------------- Next --------------------------------- *)

\* codes generateRoomId may return in the game specification: codes that
\* neither the registry nor the hand store has a key for
FreshCodes == GameCodes \ (DOMAIN rooms \cup DOMAIN cards)

\* card ids a client may name in PLAY_CARD
CardIds == AllCards \cup {Card("none", "none")}

\* connections that may send CREATE_ROOM or JOIN_ROOM in the game
\* specification: a connection enters a room at most once, and the transport
\* numbers the connections in the order in which they first enter one
Arrivals ==
  {s \in Sockets : sockRoom[s] = None /\ \A t \in 1..(s - 1) : sockRoom[t] # None}

\* the room socket.roomId names, when the registry still has it
InRoom(s) == sockRoom[s] \in DOMAIN rooms

\* a run contains at most one event outside the normal flow of a game: a
\* step that is one is taken only if none has happened yet
Counted(isOffScript) ==
  /\ IF isOffScript
     THEN ~strayed /\ strayed' = TRUE
     ELSE strayed' = strayed
  /\ trial' = trial
  /\ UNCHANGED browser

\* no game of the next state has seen more than MaxPlays cards played
WithinPlays ==
  \A r \in DOMAIN rooms' :
    Len(rooms'[r].centerCards) + Len(rooms'[r].currentTrick) <= MaxPlays

\* START_GAME that deals again in a room that is not waiting
Restarts(s) == InRoom(s) /\ rooms[sockRoom[s]].gameState # "waiting" /\ rooms' # rooms

\* a player walking out of a room
WalksOut(s) == RoomOf(s) # None

\* connections that have entered a room; the others have sent nothing yet
Present == {s \in Sockets : sockRoom[s] # None}

\* the messages a handler emits are written to the transport before the next
\* event is dispatched
Idle == sent = <<>>

Flush ==
  /\ sent # <<>>
  /\ sent' = <<>>
  /\ UNCHANGED <<rooms, roomOrder, cards, sockRoom, joined, connected>>

Next ==
  \/ Idle /\ \E s \in Arrivals, r \in FreshCodes, n \in Names :
       CreateRoom(s, r, n) /\ Counted(FALSE)
  \/ Idle /\ \E s \in Arrivals, r \in GameCodes, n \in Names :
       JoinRoom(s, r, n) /\ Counted(FALSE)
  \/ Idle /\ \E s \in Present, seed \in 1..NumSeeds :
       StartGame(s, seed) /\ Counted(Restarts(s))
  \/ Idle /\ \E s \in Present, c \in CardIds :
       PlayCard(s, c) /\ WithinPlays /\ Counted(FALSE)
  \/ Idle /\ \E s \in Present, n \in {SetSize - 1, SetSize} :
       MakeSet(s, n) /\ Counted(rooms' # rooms)
  \/ Idle /\ \E s \in Present : PassCards(s) /\ Counted(FALSE)
  \/ Idle /\ \E s \in Present : ReadyUp(s) /\ Counted(FALSE)
  \/ Idle /\ \E s \in Present : LeaveRoom(s) /\ Counted(WalksOut(s))
  \/ Idle /\ \E s \in Present : Disconnect(s) /\ Counted(WalksOut(s))
  \/ Flush /\ Counted(FALSE)

Spec == Init /\ [][Next]_vars

(* ------------------------------- lobby -------------------------------- *)

\* names requested in the lobby: a plain name and one that looks like a
\* deduplicated name
LobbyNames == {<<"A">>, Suffixed(<<"A">>, 2)}

\* connections that may send CREATE_ROOM or JOIN_ROOM in the lobby: those
\* that have entered a room before, and the lowest numbered one that has not
Callers ==
  {s \in Sockets : sockRoom[s] # None \/ \A t \in 1..(s - 1) : sockRoom[t] # None}

\* a request for the name that looks like a deduplicated name
LooksDeduplicated(name) == name # <<"A">>

\* creating, joining, joining again, leaving and disconnecting, in any order
\* and any number of times, in rooms that stay waiting; generateRoomId may
\* return a code that is in use, and one request of a run may ask for the
\* name that looks like a deduplicated name
LobbyNext ==
  \/ Idle /\ \E s \in Callers, r \in GameCodes, n \in LobbyNames :
       CreateRoom(s, r, n) /\ Counted(LooksDeduplicated(n))
  \/ Idle /\ \E s \in Callers, r \in GameCodes, n \in LobbyNames :
       JoinRoom(s, r, n) /\ Counted(LooksDeduplicated(n))
  \/ Idle /\ \E s \in Present : LeaveRoom(s) /\ Counted(FALSE)
  \/ Idle /\ \E s \in Present : Disconnect(s) /\ Counted(FALSE)
  \/ Flush /\ Counted(FALSE)

LobbySpec == Init /\ [][LobbyNext]_vars

(* ------------------------------ registry ------------------------------ *)

\* room codes generateRoomId returns when several rooms are open
RegistryCodes == {1, 2}

\* CREATE_ROOM from a connection that has entered a room before
CreatesAgain(s) == sockRoom[s] # None

\* connections entering one of several rooms, leaving and disconnecting; one
\* request of a run may be a CREATE_ROOM from a connection that has entered
\* a room before
RegistryNext ==
  \/ Idle /\ \E s \in Callers, r \in RegistryCodes, n \in Names :
       CreateRoom(s, r, n) /\ Counted(CreatesAgain(s))
  \/ Idle /\ \E s \in Arrivals, r \in RegistryCodes, n \in Names :
       JoinRoom(s, r, n) /\ Counted(FALSE)
  \/ Idle /\ \E s \in Present : LeaveRoom(s) /\ Counted(FALSE)
  \/ Idle /\ \E s \in Present : Disconnect(s) /\ Counted(FALSE)
  \/ Flush /\ Counted(FALSE)

RegistrySpec == Init /\ [][RegistryNext]_vars

(* ------------------------------- table -------------------------------- *)

\* the registry of several rooms with a game in it: connections create and
\* enter rooms, leave and disconnect as in the registry, the host of a full
\* room starts the game and the players play
TableNext ==
  \/ RegistryNext
  \/ Idle /\ \E s \in Present, seed \in 1..NumSeeds :
       StartGame(s, seed) /\ Counted(Restarts(s))
  \/ Idle /\ \E s \in Present, c \in CardIds :
       PlayCard(s, c) /\ WithinPlays /\ Counted(FALSE)

TableSpec == Init /\ [][TableNext]_vars

(* ------------------------------- client ------------------------------- *)

\* connections whose browser client is followed
Clients == 1..NumClients

\* codes generateRoomId may return when clients create rooms: codes the
\* registry has no room for
UnusedCodes == RegistryCodes \ DOMAIN rooms

\* a SocketEvent as sendMessage emits it
Event(type, roomId, playerName) ==
  [type |-> type, roomId |-> roomId, playerName |-> playerName]

\* sendMessage: the event joins those the server has not handled yet
sendMessage(s, event) ==
  /\ s \in connected
  /\ Len(uplink[s]) < MaxInFlight
  /\ uplink' = [uplink EXCEPT ![s] = Append(@, event)]

\* the home page calls createRoom of the hook
createRoom(s, playerName) ==
  /\ clientState[s] = None
  /\ sendMessage(s, Event("CREATE_ROOM", None, playerName))
  /\ entering' = [entering EXCEPT ![s] = TRUE]
  /\ UNCHANGED <<clientState, downlink, server, sent>>

\* the home page calls joinRoom of the hook
joinRoomRequest(s, roomId, playerName) ==
  /\ clientState[s] = None
  /\ sendMessage(s, Event("JOIN_ROOM", roomId, playerName))
  /\ entering' = [entering EXCEPT ![s] = TRUE]
  /\ UNCHANGED <<clientState, downlink, server, sent>>

\* the lobby or the board calls leaveRoom of the hook: LEAVE_ROOM is emitted
\* and the local gameState is reset at once
leaveRoom(s) ==
  /\ clientState[s] # None
  /\ sendMessage(s, Event("LEAVE_ROOM", None, <<>>))
  /\ clientState' = [clientState EXCEPT ![s] = None]
  /\ entering' = [entering EXCEPT ![s] = FALSE]
  /\ UNCHANGED <<downlink, server, sent>>

\* handleSocketEvent for the oldest event of client s that is not handled yet
HandleEvent(s) ==
  /\ uplink[s] # <<>>
  /\ \A t \in Sockets : Len(downlink[t]) < MaxInFlight
  /\ LET event == Head(uplink[s])
     IN \/ /\ event.type = "CREATE_ROOM"
           /\ \E r \in UnusedCodes : CreateRoom(s, r, event.playerName)
        \/ /\ event.type = "JOIN_ROOM"
           /\ JoinRoom(s, event.roomId, event.playerName)
        \/ /\ event.type = "LEAVE_ROOM"
           /\ LeaveRoom(s)
  /\ uplink' = [uplink EXCEPT ![s] = Tail(@)]
  /\ UNCHANGED <<clientState, entering, downlink>>

\* what the hook reads of a SocketResponse: its type and the id of the room
\* of the GameState it carries
Response(m) ==
  [type |-> m.type,
   roomId |-> IF m.type \in {"ROOM_CREATED", "ROOM_JOINED", "GAME_STARTED",
                             "GAME_STATE_UPDATE"}
              THEN m.room.id ELSE None]

RECURSIVE Emitted(_, _)
\* the channels after the messages msgs were emitted, oldest first
Emitted(links, msgs) ==
  IF msgs = <<>> THEN links
  ELSE Emitted([links EXCEPT ![Head(msgs).to] = Append(@, Response(Head(msgs)))],
               Tail(msgs))

\* socket.emit: the messages of the latest handler are on their way
Emit ==
  /\ sent # <<>>
  /\ downlink' = Emitted(downlink, sent)
  /\ sent' = <<>>
  /\ UNCHANGED <<clientState, entering, uplink, server>>

\* handleSocketResponse: the gameState the hook has after a response; the
\* gameState read in the GAME_FINISHED case is the one of the render that
\* registered the listener, which is null
handleSocketResponse(gameState, response) ==
  IF response.type \in {"ROOM_CREATED", "ROOM_JOINED", "GAME_STARTED",
                        "GAME_STATE_UPDATE"}
  THEN response.roomId
  ELSE gameState

\* the oldest message on its way to client s is delivered
Receive(s) ==
  /\ downlink[s] # <<>>
  /\ clientState' = [clientState EXCEPT
                       ![s] = handleSocketResponse(@, Head(downlink[s]))]
  /\ downlink' = [downlink EXCEPT ![s] = Tail(@)]
  /\ UNCHANGED <<entering, uplink, server, sent>>

\* clients and server taking steps in any order
ClientNext ==
  \/ \E s \in Clients, n \in Names : createRoom(s, n) /\ UNCHANGED <<strayed, trial>>
  \/ \E s \in Clients, r \in RegistryCodes, n \in Names :
       joinRoomRequest(s, r, n) /\ UNCHANGED <<strayed, trial>>
  \/ \E s \in Clients : leaveRoom(s) /\ UNCHANGED <<strayed, trial>>
  \/ Idle /\ \E s \in Clients : HandleEvent(s) /\ UNCHANGED <<strayed, trial>>
  \/ Emit /\ UNCHANGED <<strayed, trial>>
  \/ \E s \in Clients : Receive(s) /\ UNCHANGED <<strayed, trial>>

ClientSpec == Init /\ [][ClientNext]_vars

(* ---------------------------- rules module ---------------------------- *)

\* ranks of the cards the rules functions are called with
RuleRanks == <<"2", "3", "K", "A">>

\* suits and ranks of the cards a hand is made of in the calls of isValidCardPlay
HandRanks == <<"2", "A">>

RuleCards == {Card(Suits[i], RuleRanks[j]) : i \in DOMAIN Suits, j \in DOMAIN RuleRanks}
HandCards == {Card(Suits[i], HandRanks[j]) : i \in DOMAIN Suits, j \in DOMAIN HandRanks}

\* the leadSuit argument: a suit, or NoSuit when it is left out
LeadSuits == Range(Suits) \cup {NoSuit}

\* the value null of findTrickWinner
NullCard == Card("null", "null")

\* new Set(ranks).size === 1 for a trick of four cards
AllFourSameRank(trick) ==
  Len(trick) = 4 /\ Cardinality({trick[i].rank : i \in DOMAIN trick}) = 1

\* variant of findTrickWinner without the rule for four equal ranks
findTrickWinner_NoBentRule(trick, leadSuit) ==
  IF leadSuit = NoSuit \/ Len(trick) = 0 THEN trick[1]
  ELSE LET leadSuitCards == SelectSeq(trick, LAMBDA c : c.suit = leadSuit)
       IN IF Len(leadSuitCards) = 0 THEN trick[1]
          ELSE HighestFrom(Head(leadSuitCards), Tail(leadSuitCards))

\* findTrickWinner: null stands for "no winner"; compareCards of the rules
\* module is the same function as the server's
findTrickWinner(trick, leadSuit) ==
  IF Len(trick) = 0 THEN NullCard
  ELSE IF AllFourSameRank(trick) THEN NullCard
  ELSE IF leadSuit = NoSuit THEN trick[1]
  ELSE LET leadSuitCards == SelectSeq(trick, LAMBDA c : c.suit = leadSuit)
       IN IF Len(leadSuitCards) = 0 THEN trick[1]
          ELSE HighestFrom(Head(leadSuitCards), Tail(leadSuitCards))

\* variant of shouldPlayerCollectCards in which the winner always collects
shouldPlayerCollectCards_Always(trick, leadSuit) == TRUE

\* shouldPlayerCollectCards: nobody collects four cards of one rank
shouldPlayerCollectCards(trick, leadSuit) ==
  IF AllFourSameRank(trick) THEN FALSE ELSE TRUE

\* variant of isValidCardPlay that lets any card be played
isValidCardPlay_FreePlay(card, currentTrick, playerCards, leadSuit) == TRUE

\* isValidCardPlay: follow the suit that was led when the hand can
isValidCardPlay(card, currentTrick, playerCards, leadSuit) ==
  IF Len(currentTrick) = 0 THEN TRUE
  ELSE IF leadSuit # NoSuit
    THEN LET hasLeadSuit == \E i \in DOMAIN playerCards : playerCards[i].suit = leadSuit
         IN IF hasLeadSuit THEN card.suit = leadSuit ELSE TRUE
  ELSE TRUE

RECURSIVE SkipFinished(_, _, _)
\* the while loop of getNextPlayerIndex: the index and the attempts it ends with
SkipFinished(players, nextIndex, attempts) ==
  IF players[nextIndex + 1].isFinished /\ attempts < Len(players)
  THEN SkipFinished(players, (nextIndex + 1) % Len(players), attempts + 1)
  ELSE [nextIndex |-> nextIndex, attempts |-> attempts]

\* variant of getNextPlayerIndex that does not skip anybody
getNextPlayerIndex_Clockwise(players, currentIndex) ==
  (currentIndex + 1) % Len(players)

\* getNextPlayerIndex: 0-based index of the next player who is not finished
getNextPlayerIndex(players, currentIndex) ==
  LET end == SkipFinished(players, (currentIndex + 1) % Len(players), 0)
  IN IF end.attempts >= Len(players) THEN currentIndex ELSE end.nextIndex

\* variant of checkGameOver that is true as soon as one player has no cards
checkGameOver_AnyEmpty(players) ==
  \E i \in DOMAIN players : players[i].cardCount = 0

\* checkGameOver: at most one player has cards left
checkGameOver(players) ==
  LET playersWithCards == SelectSeq(players, LAMBDA p : p.cardCount > 0)
  IN Len(playersWithCards) <= 1

\* None stands for undefined
findGameLoser(players) ==
  LET playersWithCards == SelectSeq(players, LAMBDA p : p.cardCount > 0)
  IN IF Len(playersWithCards) = 1 THEN playersWithCards[1].id ELSE None

\* variant of GameRules_checkGameOver that waits until one player is left
GameRules_checkGameOver_OneHolder(players) ==
  Len(SelectSeq(players, LAMBDA p : p.cardCount > 0)) <= 1

\* checkGameOver of server/game-rules.ts: somebody has run out of cards
GameRules_checkGameOver(players) ==
  \E i \in DOMAIN players : players[i].cardCount = 0

\* the player lists of the unit tests of checkGameOver: four players with
\* card counts out of those the tests use
TestCounts == {0, 2, 3, 5, 7}

TestLists ==
  {[i \in 1..MaxPlayers |-> [id |-> i, cardCount |-> f[i]]] :
     f \in [1..MaxPlayers -> TestCounts]}

\* tricks of four different cards, in every order
Tricks ==
  {t \in [1..4 -> RuleCards] : \A i, j \in 1..4 : i # j => t[i] # t[j]}

\* the currentTrick argument of isValidCardPlay: empty, or one card led
OpenTricks == {<<>>} \cup {<<Card(Suits[i], "3")>> : i \in DOMAIN Suits}

\* hands of up to two different cards
Hands ==
  {<<>>} \cup {<<c>> : c \in HandCards}
         \cup {h \in [1..2 -> HandCards] : h[1] # h[2]}

\* player lists of one to four players, finished or not
FinishLists ==
  UNION {[1..n -> [isFinished : BOOLEAN]] : n \in 1..MaxPlayers}

\* card counts the players of a list of four may have
CountValues == {0, 2, 3, 5}

CountLists ==
  {[i \in 1..MaxPlayers |-> [id |-> i, cardCount |-> f[i]]] :
     f \in [1..MaxPlayers -> CountValues]}

\* a call leaves the socket server as it is
ServerIdle ==
  UNCHANGED <<rooms, roomOrder, cards, sockRoom, joined, connected, sent, strayed,
              browser>>

FindTrickWinner ==
  /\ trial = Untried /\ ServerIdle
  /\ \E trick \in Tricks, leadSuit \in LeadSuits :
       trial' = [fn |-> "findTrickWinner", trick |-> trick, leadSuit |-> leadSuit,
                 result |-> findTrickWinner(trick, leadSuit)]

ShouldPlayerCollectCards ==
  /\ trial = Untried /\ ServerIdle
  /\ \E trick \in Tricks, leadSuit \in LeadSuits :
       trial' = [fn |-> "shouldPlayerCollectCards", trick |-> trick,
                 leadSuit |-> leadSuit,
                 result |-> shouldPlayerCollectCards(trick, leadSuit)]

IsValidCardPlay ==
  /\ trial = Untried /\ ServerIdle
  /\ \E card \in HandCards, currentTrick \in OpenTricks, playerCards \in Hands,
        leadSuit \in LeadSuits :
       trial' = [fn |-> "isValidCardPlay", card |-> card, currentTrick |-> currentTrick,
                 playerCards |-> playerCards, leadSuit |-> leadSuit,
                 result |-> isValidCardPlay(card, currentTrick, playerCards, leadSuit)]

GetNextPlayerIndex ==
  /\ trial = Untried /\ ServerIdle
  /\ \E players \in FinishLists :
       \E currentIndex \in 0..(Len(players) - 1) :
         trial' = [fn |-> "getNextPlayerIndex", players |-> players,
                   currentIndex |-> currentIndex,
                   result |-> getNextPlayerIndex(players, currentIndex)]

CheckGameOver ==
  /\ trial = Untried /\ ServerIdle
  /\ \E players \in CountLists :
       trial' = [fn |-> "checkGameOver", players |-> players,
                 result |-> checkGameOver(players)]

FindGameLoser ==
  /\ trial = Untried /\ ServerIdle
  /\ \E players \in CountLists :
       trial' = [fn |-> "findGameLoser", players |-> players,
                 result |-> findGameLoser(players)]

\* the players handlePlayerFinish is first called with: nobody has finished
FreshPlayers ==
  [i \in 1..MaxPlayers |-> [id |-> i, isFinished |-> FALSE, finishPosition |-> None]]

\* the finishedPlayerId argument: the id of a player, or one of nobody
FinishIds == 1..(MaxPlayers + 1)

\* the list of players the calls of handlePlayerFinish have produced so far
FinishedSoFar == IF trial.fn = "handlePlayerFinish" THEN trial.players ELSE FreshPlayers

\* calls of handlePlayerFinish made so far
CallsSoFar == IF trial.fn = "handlePlayerFinish" THEN trial.calls ELSE 0

\* handlePlayerFinish: the list of players it leaves and the number it returns
handlePlayerFinish(players, finishedPlayerId) ==
  LET at == FirstIndex(players, LAMBDA p : p.id = finishedPlayerId)
      currentFinishedCount == Len(SelectSeq(players, LAMBDA p : p.isFinished))
      position == currentFinishedCount + 1
  IN IF at = 0 THEN [players |-> players, result |-> 0]
     ELSE [players |-> [players EXCEPT ![at].isFinished = TRUE,
                                       ![at].finishPosition = position],
           result |-> position]

\* one more call on the list the earlier calls left behind
HandlePlayerFinish ==
  /\ trial.fn \in {"none", "handlePlayerFinish"} /\ ServerIdle
  /\ CallsSoFar < MaxCalls
  /\ \E finishedPlayerId \in FinishIds :
       LET out == handlePlayerFinish(FinishedSoFar, finishedPlayerId)
       IN trial' = [fn |-> "handlePlayerFinish", players |-> out.players,
                    finishedPlayerId |-> finishedPlayerId, result |-> out.result,
                    calls |-> CallsSoFar + 1]

RulesNext ==
  \/ HandlePlayerFinish
  \/ FindTrickWinner
  \/ ShouldPlayerCollectCards
  \/ IsValidCardPlay
  \/ GetNextPlayerIndex
  \/ CheckGameOver
  \/ FindGameLoser

RulesSpec == Init /\ [][RulesNext]_vars

(* ------------------------------- claims ------------------------------- *)

\* cards handed out by the latest deal
Dealt == PlayersToStart * CardsPerPlayer

\* some PLAY_CARD was handled in this step and changed the server
PlayAccepted == server' # server /\ \E s \in Sockets, c \in CardIds : PlayCard(s, c)

\* players of a room that still hold cards by their cardCount
Holders(room) == {i \in DOMAIN room.players : room.players[i].cardCount > 0}

\* C1: while a room is playing, the cardCounts of its players plus the cards
\* of the open trick plus the centre cards add up to the cards dealt
C1_CardsConserved ==
  \A r \in DOMAIN rooms :
    rooms[r].gameState = "playing" =>
      SumCardCount(rooms[r].players) + Len(rooms[r].currentTrick)
        + Len(rooms[r].centerCards) = Dealt

\* C2: a finished room stays finished, and START_GAME handled while the room
\* is playing changes neither the room nor any hand
C2_StartOnlyFromWaiting ==
  [][\A r \in DOMAIN rooms :
       /\ (rooms[r].gameState = "finished" /\ r \in DOMAIN rooms')
            => rooms'[r].gameState = "finished"
       /\ (rooms[r].gameState = "playing"
             /\ \E s \in Sockets, seed \in 1..NumSeeds :
                  sockRoom[s] = r /\ StartGame(s, seed))
            => UNCHANGED <<rooms, cards>>]_vars

\* C3: an accepted PLAY_CARD takes a room from playing to finished only when
\* at most one player still has cardCount > 0
C3_EndsOnlyWithOneHolder ==
  [][\A r \in DOMAIN rooms :
       (rooms[r].gameState = "playing" /\ r \in DOMAIN rooms'
          /\ rooms'[r].gameState = "finished" /\ PlayAccepted)
         => Cardinality(Holders(rooms'[r])) <= 1]_vars

\* C4: when a play finishes a room, the winner is a player with an empty hand
\* and the donkey is the single player who still holds cards
C4_WinnerAndDonkey ==
  [][\A r \in DOMAIN rooms :
       (rooms[r].gameState = "playing" /\ r \in DOMAIN rooms'
          /\ rooms'[r].gameState = "finished" /\ PlayAccepted)
         => LET room == rooms'[r]
            IN /\ \E i \in DOMAIN room.players :
                    room.players[i].id = room.winner /\ room.players[i].cardCount = 0
               /\ \E i \in DOMAIN room.players :
                    room.players[i].id = room.donkey /\ Holders(room) = {i}]_vars

\* C5: while a room is playing and at least two players hold cards, exactly
\* one player has isCurrentTurn
C5_OneTurnHolder ==
  \A r \in DOMAIN rooms :
    (rooms[r].gameState = "playing" /\ Cardinality(Holders(rooms[r])) >= 2)
      => Cardinality({i \in DOMAIN rooms[r].players :
                        rooms[r].players[i].isCurrentTurn}) = 1

\* position of a rank in the order 2 < 3 < ... < 10 < J < Q < K < A
RankValue(rank) == IndexOf(RankOrder, rank, 1)

\* collectedCards of the player with id s in a room (0 when absent)
CollectedOf(room, s) ==
  IF IsMember(room, s) THEN room.players[PlayerPos(room, s)].collectedCards ELSE 0

\* the step completes a trick of room r: the play put the fourth card down
CompletesTrick(r) ==
  /\ rooms[r].gameState = "playing"
  /\ Len(rooms[r].currentTrick) = TrickSize - 1
  /\ r \in DOMAIN rooms'
  /\ Len(rooms'[r].centerCards) = Len(rooms[r].centerCards) + TrickSize
  /\ PlayAccepted

\* the four cards of the trick the step completed
DoneTrick(r) ==
  SubSeq(rooms'[r].centerCards, Len(rooms[r].centerCards) + 1,
         Len(rooms'[r].centerCards))

SameRank(trick) == \A i, j \in DOMAIN trick : trick[i].rank = trick[j].rank

\* the highest-ranked card of the suit that was led
TopOfLeadSuit(trick) ==
  CHOOSE w \in Range(trick) :
    /\ w.suit = trick[1].suit
    /\ \A x \in Range(trick) : x.suit = trick[1].suit => RankValue(x.rank) <= RankValue(w.rank)

TurnHolders(room) == {i \in DOMAIN room.players : room.players[i].isCurrentTurn}

\* nobody's collectedCards changes in the step
NobodyCollects(r) ==
  \A i \in DOMAIN rooms'[r].players :
    rooms'[r].players[i].collectedCards = CollectedOf(rooms[r], rooms'[r].players[i].id)

\* the player with id w takes the trick: four more collectedCards, the lead
\* and the only turn flag
TakesTrick(r, w) ==
  LET i == PlayerPos(rooms'[r], w)
  IN /\ i # 0
     /\ rooms'[r].players[i].collectedCards = CollectedOf(rooms[r], w) + TrickSize
     /\ rooms'[r].currentPlayerIndex = i - 1
     /\ rooms'[r].trickStartPlayer = i - 1
     /\ TurnHolders(rooms'[r]) = {i}

\* C6: a completed trick of four equal ranks credits nobody, still moves its
\* cards to centerCards, and leaves the lead with the player who led it
C6_VoidTrick ==
  [][\A r \in DOMAIN rooms :
       (CompletesTrick(r) /\ SameRank(DoneTrick(r)))
         => /\ NobodyCollects(r)
            /\ rooms'[r].currentTrick = <<>>
            /\ SubSeq(DoneTrick(r), 1, TrickSize - 1) = rooms[r].currentTrick
            /\ LET i == PlayerPos(rooms'[r], DoneTrick(r)[1].playedBy)
               IN /\ rooms'[r].currentPlayerIndex = i - 1
                  /\ rooms'[r].trickStartPlayer = i - 1]_vars

C8_MustFollowSuit ==
  [][\A s \in Sockets, c \in AllCards :
       (/\ InRoom(s)
        /\ LET room == rooms[sockRoom[s]]
               hand == getPlayerCards(cards, room.id, s)
           IN /\ room.gameState = "playing"
              /\ \E i \in DOMAIN room.players :
                   room.players[i].id = s /\ room.players[i].isCurrentTurn
              /\ c \in Range(hand)
              /\ Len(room.currentTrick) > 0
              /\ c.suit # room.trickLeadSuit
              /\ \E h \in Range(hand) : h.suit = room.trickLeadSuit
        /\ PlayCard(s, c))
         => UNCHANGED server]_vars

\* PLAY_CARD of card c by s meets the three conditions of acceptance
Playable(s, c) ==
  /\ InRoom(s)
  /\ rooms[sockRoom[s]].gameState = "playing"
  /\ \E i \in DOMAIN rooms[sockRoom[s]].players :
       /\ rooms[sockRoom[s]].players[i].id = s
       /\ rooms[sockRoom[s]].players[i].isCurrentTurn
  /\ c \in Range(getPlayerCards(cards, sockRoom[s], s))

\* C9: whenever the server is about to take an event, a PLAY_CARD that is not
\* sent in a playing room by the turn holder for a card of the own hand
\* changes neither room nor hand, and whatever it emits is an ERROR to the
\* requester
C9_PlayRejected ==
  Idle =>
    \A s \in connected, c \in CardIds :
      ~Playable(s, c) =>
        LET out == playCard(s, c)
        IN /\ out.rooms = rooms
           /\ out.cards = cards
           /\ \A k \in DOMAIN out.sent :
                out.sent[k].to = s /\ out.sent[k].type = "ERROR"

\* C9 witness: right after the start, seat 1 was told it is not its turn
C9_Witness ==
  \E r \in DOMAIN rooms :
    /\ rooms[r].gameState = "playing"
    /\ rooms[r].centerCards = <<>> /\ rooms[r].currentTrick = <<>>
    /\ Len(rooms[r].players) = PlayersToStart
    /\ rooms[r].players[1].isCurrentTurn
    /\ sent = <<ErrorMsg(rooms[r].players[2].id, "Not your turn!")>>

\* message types that carry a GameState view
ViewTypes == {"ROOM_CREATED", "ROOM_JOINED", "GAME_STARTED", "GAME_STATE_UPDATE"}

\* a card other than c: same rank, next suit
OtherCard(c) ==
  Card(Suits[((IndexOf(Suits, c.suit, 1) + 1) % Len(Suits)) + 1], c.rank)

\* the hand store with every hand except those of s replaced by other cards,
\* card for card
Scramble(store, s) ==
  [r \in DOMAIN store |->
     [pid \in DOMAIN store[r] |->
        IF pid = s THEN store[r][pid]
        ELSE [i \in DOMAIN store[r][pid] |-> OtherCard(store[r][pid][i])]]]

\* every view the server builds for connection s from rooms rs and hand
\* store store
ViewsFor(s, rs, store, conn) ==
  UNION {{m \in Range(broadcastGameStateUpdate(rs[r], store, conn))
                 \cup Range(broadcastGameStateToRoom(rs[r], store, conn))
                 \cup Range(GameStartedMsgs(rs[r], store, conn)) : m.to = s}
           \cup {ViewMsg(s, "ROOM_CREATED", rs[r], <<>>, FALSE),
                 ViewMsg(s, "ROOM_JOINED", rs[r], <<>>, FALSE)}
         : r \in DOMAIN rs}

Copies(list, c) ==
  Len(SelectSeq(list, LAMBDA x : x.suit = c.suit /\ x.rank = c.rank))

RECURSIVE CopiesInHands(_, _, _, _)
\* how often card c occurs in the private hands that the hand store holds
\* for the players i.. of a room
CopiesInHands(store, room, c, i) ==
  IF i > Len(room.players) THEN 0
  ELSE Copies(getPlayerCards(store, room.id, room.players[i].id), c)
         + CopiesInHands(store, room, c, i + 1)

\* C11: while a room is playing, every card of the deck is exactly once in
\* the hands of the room's players, the open trick and the centre cards
C11_EveryCardOnce ==
  \A r \in DOMAIN rooms :
    rooms[r].gameState = "playing" =>
      \A c \in AllCards :
        CopiesInHands(cards, rooms[r], c, 1) + Copies(rooms[r].currentTrick, c)
          + Copies(rooms[r].centerCards, c) = 1

\* the private hand of the player at seat i of a room
HandOf(room, i) == getPlayerCards(cards, room.id, room.players[i].id)

\* C12: every player's cardCount is the size of the player's private hand
C12_CountIsHandSize ==
  \A r \in DOMAIN rooms :
    \A i \in DOMAIN rooms[r].players :
      rooms[r].players[i].cardCount = Len(HandOf(rooms[r], i))

MayStart(s) ==
  /\ InRoom(s)
  /\ \E i \in DOMAIN rooms[sockRoom[s]].players :
       /\ rooms[sockRoom[s]].players[i].id = s
       /\ rooms[sockRoom[s]].players[i].isHost
  /\ Len(rooms[sockRoom[s]].players) = PlayersToStart

C15_JoinRejected ==
  Idle =>
    \A s \in connected, r \in RegistryCodes, n \in LobbyNames :
      LET out == joinRoom(s, r, n)
      IN /\ (\/ r \notin DOMAIN rooms
             \/ Len(rooms[r].players) >= MaxPlayers
             \/ rooms[r].gameState # "waiting")
            => /\ out.rooms = rooms
               /\ out.joined = joined
               /\ out.sockRoom = sockRoom
               /\ Len(out.sent) = 1
               /\ out.sent[1].to = s /\ out.sent[1].type = "ERROR"
         /\ \A q \in DOMAIN rooms :
              rooms[q].gameState # "waiting" => out.rooms[q] = rooms[q]

\* C15 witness: a playing room has a free seat, and a connection that is not
\* in it is refused when it asks to join
C15_Witness ==
  /\ Idle
  /\ \E r \in DOMAIN rooms, s \in connected :
       /\ rooms[r].gameState = "playing"
       /\ Len(rooms[r].players) < MaxPlayers
       /\ ~IsMember(rooms[r], s)
       /\ joinRoom(s, r, <<"A">>).sent = <<ErrorMsg(s, "Game already in progress")>>

\* the players of room r are all entries of connection s
OnlyPlayer(r, s) ==
  \A i \in DOMAIN rooms[r].players : rooms[r].players[i].id = s

\* every room of the registry has between one and maxPlayers players
RoomSizesInRange ==
  \A r \in DOMAIN rooms :
    Len(rooms[r].players) >= 1 /\ Len(rooms[r].players) <= MaxPlayers

\* C16: every room of the registry has between one and four players, and a
\* room whose only player leaves or disconnects is gone from the registry
\* after that step
C16_RoomSizeAndRemoval ==
  /\ []RoomSizesInRange
  /\ [][\A s \in Sockets :
          (LeaveRoom(s) \/ Disconnect(s))
            => \A r \in DOMAIN rooms : OnlyPlayer(r, s) => r \notin DOMAIN rooms']_vars

\* seats of a room whose player has isHost
HostSeats(room) == {i \in DOMAIN room.players : room.players[i].isHost}

OneHostPerRoom == \A r \in DOMAIN rooms : Cardinality(HostSeats(rooms[r])) = 1

\* the players of a room other than those of connection s, in seat order
Remaining(room, s) == SelectSeq(room.players, LAMBDA p : p.id # s)

\* in this step the host of room r left it and somebody remains: the players
\* of r afterwards are the other players of r, in their seat order
HostLeft(r) ==
  /\ r \in DOMAIN rooms /\ r \in DOMAIN rooms'
  /\ \E i \in HostSeats(rooms[r]) :
       LET rest == Remaining(rooms[r], rooms[r].players[i].id)
       IN /\ rest # <<>>
          /\ Len(rooms'[r].players) = Len(rest)
          /\ \A k \in DOMAIN rest : rooms'[r].players[k].id = rest[k].id

\* in this step connection s joined room r as a new player
JoinedAsNew(r, s) ==
  /\ r \in DOMAIN rooms /\ r \in DOMAIN rooms'
  /\ ~IsMember(rooms[r], s) /\ IsMember(rooms'[r], s)
  /\ Len(rooms'[r].players) = Len(rooms[r].players) + 1

\* C17: every room of the registry has exactly one host; when the host leaves
\* a room in which somebody remains, the first remaining player in seat order
\* is the host afterwards; and a connection that joins as a new player is
\* made host only if the room had no host
C17_OneHost ==
  /\ []OneHostPerRoom
  /\ [][\A r \in RegistryCodes :
          /\ HostLeft(r) => HostSeats(rooms'[r]) = {1}
          /\ \A s \in Sockets :
               (JoinedAsNew(r, s) /\ rooms'[r].players[PlayerPos(rooms'[r], s)].isHost)
                 => HostSeats(rooms[r]) = {}]_vars

\* C17 witness: the host of a room of four left it, and the player who sat
\* behind it is the only host now
C17_Witness ==
  \E r \in DOMAIN rooms :
    /\ Len(rooms[r].players) = 3
    /\ HostSeats(rooms[r]) = {1}
    /\ rooms[r].players[1].id = 2
    /\ rooms[r].players[2].id = 3
    /\ rooms[r].players[3].id = 4
    /\ ~IsMember(rooms[r], 1) /\ sockRoom[1] = r

\* C18: no two players of a room have the same displayName
C18_UniqueDisplayNames ==
  \A r \in DOMAIN rooms :
    \A i, k \in DOMAIN rooms[r].players :
      i # k => rooms[r].players[i].displayName # rooms[r].players[k].displayName

\* C18 witness: a player asked for the name another player had been given as
\* its deduplicated name, and got a further suffix
C18_Witness ==
  \E r \in DOMAIN rooms :
    \E i, k \in DOMAIN rooms[r].players :
      /\ rooms[r].players[i].name = <<"A">>
      /\ rooms[r].players[i].displayName = Suffixed(<<"A">>, 2)
      /\ rooms[r].players[k].name = Suffixed(<<"A">>, 2)
      /\ rooms[r].players[k].displayName = Suffixed(Suffixed(<<"A">>, 2), 2)

\* ids of the players of a room, in seat order
SeatOrder(room) == [i \in DOMAIN room.players |-> room.players[i].id]

\* C19: JOIN_ROOM from a connection that already has a player entry in the
\* waiting room it names keeps the number of players, the host flag of that
\* entry and the seat order of the room
C19_RejoinKeepsSeat ==
  [][\A s \in Sockets, r \in DOMAIN rooms, n \in LobbyNames :
       (/\ rooms[r].gameState = "waiting"
        /\ IsMember(rooms[r], s)
        /\ JoinRoom(s, r, n))
         => /\ Len(rooms'[r].players) = Len(rooms[r].players)
            /\ rooms'[r].players[PlayerPos(rooms'[r], s)].isHost
                 = rooms[r].players[PlayerPos(rooms[r], s)].isHost
            /\ SeatOrder(rooms'[r]) = SeatOrder(rooms[r])]_vars

\* C20: CREATE_ROOM leaves every room that is in the registry in the
\* registry and as it was, whatever code generateRoomId returns
C20_CreateKeepsLiveRooms ==
  [][\A s \in Sockets, r \in GameCodes, n \in LobbyNames :
       CreateRoom(s, r, n)
         => \A q \in DOMAIN rooms : q \in DOMAIN rooms' /\ rooms'[q] = rooms[q]]_vars

\* cards played in a room since the deal
PlayedCards(room) == room.centerCards \o room.currentTrick

\* the step handled a PLAY_CARD for room r and accepted it
PlayedIn(r) ==
  /\ r \in DOMAIN rooms /\ r \in DOMAIN rooms'
  /\ rooms[r].gameState = "playing"
  /\ Len(PlayedCards(rooms'[r])) = Len(PlayedCards(rooms[r])) + 1

\* the connection whose card the step accepted
PlayedBy(r) == PlayedCards(rooms'[r])[Len(PlayedCards(rooms'[r]))].playedBy

\* connections whose PLAY_CARD for room r, for some card, the server would
\* accept if it were the next event
Acceptors(r) ==
  {s \in Sockets :
     sockRoom[s] = r /\ \E c \in CardIds : playCard(s, c).rooms # rooms}

\* C21: a handler runs to completion before the next event is taken, so
\* between events at most one player of a room can have a PLAY_CARD accepted,
\* and that player holds the turn; when a PLAY_CARD is accepted, it came from
\* that player, and a PLAY_CARD any other player sent for the same turn is
\* judged in a later state, by the same rule
C21_OnePlayPerTurn ==
  /\ [](Idle =>
         \A r \in DOMAIN rooms :
           /\ Cardinality(Acceptors(r)) <= 1
           /\ \A s \in Acceptors(r) : HasTurn(rooms[r], PlayerPos(rooms[r], s)))
  /\ [][\A r \in DOMAIN rooms : PlayedIn(r) => Acceptors(r) = {PlayedBy(r)}]_vars

\* C21 witness: the first two plays of a game were accepted from two
\* different players, one after the other
C21_Witness ==
  \E r \in DOMAIN rooms :
    /\ rooms[r].gameState = "playing"
    /\ rooms[r].centerCards = <<>>
    /\ Len(rooms[r].currentTrick) = 2
    /\ rooms[r].currentTrick[1].playedBy # rooms[r].currentTrick[2].playedBy
    /\ sent # <<>>

\* C22: a game that was dealt once and played without a leave, a disconnect
\* or a MAKE_SET is finished only when every trick was played out: no trick
\* is open, all cards dealt are in the centre or in the hand of the donkey,
\* every other hand is empty, and one player is the donkey
C22_FullGame ==
  \A r \in DOMAIN rooms :
    (rooms[r].gameState = "finished" /\ ~strayed)
      => /\ rooms[r].currentTrick = <<>>
         /\ IsMember(rooms[r], rooms[r].donkey)
         /\ Len(rooms[r].centerCards) + Len(getPlayerCards(cards, r, rooms[r].donkey))
              = Dealt
         /\ \A i \in DOMAIN rooms[r].players :
              rooms[r].players[i].id # rooms[r].donkey
                => getPlayerCards(cards, r, rooms[r].players[i].id) = <<>>

\* the k-th completed trick of a room, k counted from 0
TrickNo(room, k) == SubSeq(room.centerCards, TrickSize * k + 1, TrickSize * (k + 1))

\* the connections that played the cards of a trick
PlayersOf(trick) == {trick[j].playedBy : j \in DOMAIN trick}

\* the cards of a trick come from consecutive seats, as far as their players
\* are still seated
InSeatOrder(room, trick) ==
  \A j \in 1..(Len(trick) - 1) :
    (IsMember(room, trick[j].playedBy) /\ IsMember(room, trick[j + 1].playedBy))
      => \/ Len(room.players) # PlayersToStart
         \/ PlayerPos(room, trick[j + 1].playedBy)
              = (PlayerPos(room, trick[j].playedBy) % PlayersToStart) + 1

\* C23: every completed trick of a room has four cards from four different
\* players, one per seat in turn order, and the open trick has no two cards
\* from one player, also after a player left or disconnected during the game
C23_OneCardPerPlayer ==
  \A r \in DOMAIN rooms :
    /\ Len(rooms[r].centerCards) % TrickSize = 0
    /\ \A k \in 0..((Len(rooms[r].centerCards) \div TrickSize) - 1) :
         /\ Cardinality(PlayersOf(TrickNo(rooms[r], k))) = TrickSize
         /\ InSeatOrder(rooms[r], TrickNo(rooms[r], k))
    /\ Cardinality(PlayersOf(rooms[r].currentTrick)) = Len(rooms[r].currentTrick)
    /\ InSeatOrder(rooms[r], rooms[r].currentTrick)

\* message m tells connection s the state of room r after the step, with the
\* hand s holds after the step
UpdateFor(m, r, s) ==
  /\ m.to = s
  /\ m.type = "GAME_STATE_UPDATE"
  /\ m.myId = s
  /\ m.room = PublicRoom(rooms'[r])
  /\ m.myCards = getPlayerCards(cards', r, s)

C25_LeaveRemovesAndTells ==
  [][\A s \in Sockets :
       (LeaveRoom(s) \/ Disconnect(s))
         => /\ \A r \in DOMAIN rooms' : ~IsMember(rooms'[r], s)
            /\ \A r \in DOMAIN rooms :
                 (IsMember(rooms[r], s) /\ r \in DOMAIN rooms')
                   => \A i \in DOMAIN rooms'[r].players :
                        \E k \in DOMAIN sent' :
                          /\ sent'[k].to = rooms'[r].players[i].id
                          /\ sent'[k].type = "GAME_STATE_UPDATE"
                          /\ sent'[k].room = PublicRoom(rooms'[r])
                          /\ ~IsMember(sent'[k].room, s)]_vars

\* the cards of a trick that have the suit that was led
OfLeadSuit(trick, leadSuit) == {x \in Range(trick) : x.suit = leadSuit}

\* C26: findTrickWinner of a trick of four cards is null exactly when the four
\* ranks are equal, whatever the suits; otherwise it is the highest-ranked
\* card of the lead suit, or the first card when no card has the lead suit
C26_TrickWinner ==
  trial.fn = "findTrickWinner" =>
    LET lead == OfLeadSuit(trial.trick, trial.leadSuit)
    IN /\ (trial.result = NullCard) <=> SameRank(trial.trick)
       /\ (~SameRank(trial.trick) /\ lead # {})
            => /\ trial.result \in lead
               /\ \A x \in lead : RankValue(x.rank) <= RankValue(trial.result.rank)
       /\ (~SameRank(trial.trick) /\ lead = {}) => trial.result = trial.trick[1]

\* C26 witness: 3 of hearts, ace of spades, 2 of hearts, king of clubs, led
\* in hearts, goes to the 3 of hearts
C26_Witness ==
  /\ trial.fn = "findTrickWinner"
  /\ trial.trick = <<Card("hearts", "3"), Card("spades", "A"),
                      Card("hearts", "2"), Card("clubs", "K")>>
  /\ trial.leadSuit = "hearts"
  /\ trial.result = Card("hearts", "3")

\* C27: shouldPlayerCollectCards of a trick of four cards is false exactly
\* when findTrickWinner of the same trick and lead suit is null
C27_CollectUnlessVoid ==
  trial.fn = "shouldPlayerCollectCards" =>
    ((trial.result = FALSE)
       <=> (findTrickWinner(trial.trick, trial.leadSuit) = NullCard))

\* C27 witness: nobody collects the four aces
C27_Witness ==
  /\ trial.fn = "shouldPlayerCollectCards"
  /\ \A i \in DOMAIN trial.trick : trial.trick[i].rank = "A"
  /\ trial.leadSuit = trial.trick[1].suit
  /\ trial.result = FALSE

\* C28: isValidCardPlay is true for an empty trick; for a trick that is not
\* empty it is true exactly when the card has the lead suit or the hand has
\* no card of the lead suit
C28_ValidPlay ==
  trial.fn = "isValidCardPlay" =>
    IF trial.currentTrick = <<>> THEN trial.result = TRUE
    ELSE (trial.result = TRUE)
           <=> \/ trial.card.suit = trial.leadSuit
               \/ \A i \in DOMAIN trial.playerCards :
                    trial.playerCards[i].suit # trial.leadSuit

\* C28 witness: a heart was led, the hand has a heart, and the spade of the
\* hand is refused
C28_Witness ==
  /\ trial.fn = "isValidCardPlay"
  /\ trial.currentTrick = <<Card("hearts", "3")>>
  /\ trial.leadSuit = "hearts"
  /\ trial.playerCards = <<Card("hearts", "A"), Card("spades", "A")>>
  /\ trial.card = Card("spades", "A")
  /\ trial.result = FALSE

\* 0-based seats of the players of a list that are not finished
Unfinished(players) == {i \in 0..(Len(players) - 1) : ~players[i + 1].isFinished}

\* seats passed going clockwise from the seat after from until seat i
StepsTo(players, from, i) == (i - from - 1 + Len(players)) % Len(players)

\* C29: getNextPlayerIndex is the first seat clockwise after currentIndex
\* whose player is not finished (the only such seat when one is left, from
\* every currentIndex), and currentIndex when every player is finished
C29_NextUnfinished ==
  trial.fn = "getNextPlayerIndex" =>
    IF Unfinished(trial.players) = {} THEN trial.result = trial.currentIndex
    ELSE /\ trial.result \in Unfinished(trial.players)
         /\ \A i \in Unfinished(trial.players) :
              StepsTo(trial.players, trial.currentIndex, trial.result)
                <= StepsTo(trial.players, trial.currentIndex, i)

\* C29 witness: three of four players are finished and the call starts at
\* the seat of the one who is not; that seat is returned
C29_Witness ==
  /\ trial.fn = "getNextPlayerIndex"
  /\ Len(trial.players) = MaxPlayers
  /\ Unfinished(trial.players) = {2}
  /\ trial.currentIndex = 2
  /\ trial.result = 2

\* positions of the players of a list that have cards
WithCards(players) == {i \in DOMAIN players : players[i].cardCount > 0}

OutOfCards(players) == {i \in DOMAIN players : players[i].cardCount = 0}

FinishedIn(players) == {i \in DOMAIN players : players[i].isFinished}

\* C32: a call of handlePlayerFinish for a player of the list returns 1 plus
\* the number of players who had finished, a finishPosition a player has is
\* never changed by a later call, and no two players have the same
\* finishPosition
C32_FinishPositions ==
  /\ [](trial.fn = "handlePlayerFinish" =>
         \A i, j \in FinishedIn(trial.players) :
           i # j => trial.players[i].finishPosition # trial.players[j].finishPosition)
  /\ [][HandlePlayerFinish =>
          /\ trial'.finishedPlayerId \in 1..MaxPlayers
                => trial'.result = 1 + Cardinality(FinishedIn(FinishedSoFar))
          /\ \A i \in FinishedIn(FinishedSoFar) :
                trial'.players[i].finishPosition = FinishedSoFar[i].finishPosition]_vars

\* LEAVE_ROOM or a disconnect of connection s, handled while the room it is
\* in is playing and it holds the turn there
TurnHolderGoes(s) ==
  /\ InRoom(s)
  /\ rooms[sockRoom[s]].gameState = "playing"
  /\ HasTurn(rooms[sockRoom[s]], PlayerPos(rooms[sockRoom[s]], s))
  /\ LeaveRoom(s) \/ Disconnect(s)

\* a playing room in which nobody holds the turn
Stalled(room) == room.gameState = "playing" /\ TurnHolders(room) = {}

\* C33: when the player who holds the turn in a playing room leaves or
\* disconnects, nobody holds the turn in the room afterwards; while nobody
\* holds the turn in a playing room, PLAY_CARD from each of its players is
\* answered with "Not your turn!" and changes nothing, no card is played in
\* the room and nobody gets the turn
C33_StallAfterTurnHolderLeaves ==
  /\ [][\A s \in Sockets :
          (TurnHolderGoes(s) /\ sockRoom[s] \in DOMAIN rooms')
            => TurnHolders(rooms'[sockRoom[s]]) = {}]_vars
  /\ [](Idle =>
         \A r \in DOMAIN rooms :
           Stalled(rooms[r]) =>
             \A i \in DOMAIN rooms[r].players, c \in CardIds :
               LET s == rooms[r].players[i].id
               IN sockRoom[s] = r =>
                    /\ playCard(s, c).sent = <<ErrorMsg(s, "Not your turn!")>>
                    /\ playCard(s, c).rooms = rooms)
  /\ [][\A r \in DOMAIN rooms :
          (Stalled(rooms[r]) /\ r \in DOMAIN rooms')
            => /\ Len(PlayedCards(rooms'[r])) <= Len(PlayedCards(rooms[r]))
               /\ rooms'[r].gameState = "playing" => TurnHolders(rooms'[r]) = {}]_vars

\* C34: in every room trickLeadSuit is set exactly when currentTrick is not
\* empty, and it is then the suit of the first card of currentTrick
C34_LeadSuitOfOpenTrick ==
  \A r \in DOMAIN rooms :
    /\ rooms[r].trickLeadSuit # NoSuit <=> rooms[r].currentTrick # <<>>
    /\ rooms[r].currentTrick # <<>>
         => rooms[r].trickLeadSuit = rooms[r].currentTrick[1].suit

\* C34 witness: a card of another suit has followed the card that was led
C34_Witness ==
  \E r \in DOMAIN rooms :
    /\ rooms[r].gameState = "playing"
    /\ Len(rooms[r].currentTrick) >= 2
    /\ rooms[r].currentTrick[2].suit # rooms[r].currentTrick[1].suit
    /\ rooms[r].trickLeadSuit = rooms[r].currentTrick[1].suit

\* C35: a finished room has a winner and a donkey, and they are two
\* different players
C35_WinnerIsNotDonkey ==
  \A r \in DOMAIN rooms :
    rooms[r].gameState = "finished" =>
      /\ rooms[r].winner # None
      /\ rooms[r].donkey # None
      /\ rooms[r].winner # rooms[r].donkey

\* C36: while a room is playing, currentPlayerIndex is an index of players
\* and every player who has isCurrentTurn is the one at that index
C36_TurnIsAtCurrentIndex ==
  \A r \in DOMAIN rooms :
    rooms[r].gameState = "playing" =>
      /\ rooms[r].currentPlayerIndex \in 0..(Len(rooms[r].players) - 1)
      /\ \A i \in TurnHolders(rooms[r]) : i - 1 = rooms[r].currentPlayerIndex

\* rooms of the registry that list connection s as a player
RoomsListing(s) == {r \in DOMAIN rooms : IsMember(rooms[r], s)}

\* C37: a connection is a player of at most one room; every player a room
\* lists is a connection the transport still holds, and every room has such
\* a player
C37_OneRoomPerConnection ==
  /\ \A s \in Sockets : Cardinality(RoomsListing(s)) <= 1
  /\ \A r \in DOMAIN rooms :
       /\ \A i \in DOMAIN rooms[r].players : rooms[r].players[i].id \in connected
       /\ \E i \in DOMAIN rooms[r].players : rooms[r].players[i].id \in connected

\* a game of four in which nobody has left or disconnected and no MAKE_SET
\* was handled since the deal: the room is playing, has its four players,
\* and each cardCount is the size of the hand
FullGame(room) ==
  /\ room.gameState = "playing"
  /\ Len(room.players) = PlayersToStart
  /\ \A i \in DOMAIN room.players :
       /\ room.players[i].id \in connected
       /\ room.players[i].cardCount
            = Len(getPlayerCards(cards, room.id, room.players[i].id))

C39_TrickAndCentreSizes ==
  \A r \in DOMAIN rooms :
    /\ Len(rooms[r].currentTrick) <= TrickSize - 1
    /\ Len(rooms[r].centerCards) % TrickSize = 0
    /\ SumCollected(rooms[r].players) <= Len(rooms[r].centerCards)

\* C39 witness: a trick was completed and its winner has collected it
C39_Witness ==
  \E r \in DOMAIN rooms :
    /\ Idle
    /\ Len(rooms[r].centerCards) = TrickSize
    /\ SumCollected(rooms[r].players) = TrickSize
    /\ rooms[r].currentTrick = <<>>

\* C40: a client that has called leaveRoom and has not called createRoom or
\* joinRoom since has gameState null, whatever is delivered to it
C40_LeftClientStaysOut ==
  \A s \in Clients : ~entering[s] => clientState[s] = None

====
